---- MODULE Spec2Model ----
(***************************************************************************)
(* Bus-level model of the LR35902 CPU core of lycoder/edge                 *)
(* (src/gb/lr35902/cpu_funcs.hpp, src/gb/lr35902/cpu_table.hpp).           *)
(*                                                                         *)
(* The state is the cpu_t record together with the pin set it points to,   *)
(* an external memory that watches the pins, the byte a test harness       *)
(* passes as the destination of its reads, the number of cpu_clock calls   *)
(* since cpu_init, and a history record that remembers what the last       *)
(* operation did (return values, the half-cycle a transaction was begun    *)
(* at, ...) so that properties of calls can be stated over states.         *)
(***************************************************************************)
EXTENDS Integers, Sequences, FiniteSets, TLC

VARIABLES cpu, mem, dest, n, hist

vars == <<cpu, mem, dest, n, hist>>

(***************************************************************************)
(* Bounds of the model.                                                    *)
(***************************************************************************)
\* cpu_clock is called at most MaxTicks times between two calls of cpu_init
MaxTicks == 25

\* ... and at most MaxTestTicks times when the core is in test mode
MaxTestTicks == 17

(***************************************************************************)
(* Inputs.                                                                 *)
(***************************************************************************)
\* addresses the harness uses: both ends of ROM, of the unmapped gap
\* 0x8000-0x9fff, of RAM and of HRAM/IO
TestAddrs == {\H0000, \H7FFF, \H8000, \H9FFF, \HA000, \HFDFF, \HFE00, \HFFFF}

\* bytes the harness writes
TestData == {\H5A, \HA5}

\* addresses and bytes an instruction handler writes: one in RAM, one in
\* HRAM/IO
HandlerAddrs == {\HA000, \HFE00}

HandlerData == {\HA5}

\* values the program counter is loaded with after cpu_init
StartPcs == {\H0100, \H0101, \H7FFF, \HFFFE, \HFFFF}

(***************************************************************************)
(* 16-bit and 8-bit arithmetic.                                            *)
(***************************************************************************)
RECURSIVE BitAnd(_, _)
BitAnd(x, y) ==
    IF x = 0 \/ y = 0 THEN 0
    ELSE (IF x % 2 = 1 /\ y % 2 = 1 THEN 1 ELSE 0) + 2 * BitAnd(x \div 2, y \div 2)

RECURSIVE BitOr(_, _)
BitOr(x, y) ==
    IF x = 0 THEN y
    ELSE IF y = 0 THEN x
    ELSE (IF x % 2 = 1 \/ y % 2 = 1 THEN 1 ELSE 0) + 2 * BitOr(x \div 2, y \div 2)

\* x >> k
Shr(x, k) == x \div (2 ^ k)

\* the RANGE(v, l, h) macro: l <= v <= h
RANGE(v, l, h) == v >= l /\ v <= h

(***************************************************************************)
(* cpu_table.hpp: the handler each opcode is dispatched to.  The table is  *)
(* 0-indexed in the source; instruction_table_at(op) is its entry op.      *)
(***************************************************************************)
\* the table with one entry left out of row 7X: 255 entries, every later
\* opcode dispatched to its neighbour's handler
instruction_table_short ==
    << "nop", "ld_rr_nn", "nop", "nop", "nop", "nop", "ld_r_n", "nop",
       "ld_nn_sp", "nop", "ld_a_bc", "nop", "nop", "nop", "ld_r_n", "nop",
       "nop", "ld_rr_nn", "nop", "nop", "nop", "nop", "ld_r_n", "nop",
       "nop", "nop", "ld_a_de", "nop", "nop", "nop", "ld_r_n", "nop",
       "nop", "ld_rr_nn", "ld_hli_a", "nop", "nop", "nop", "ld_r_n", "nop",
       "nop", "nop", "ld_a_hli", "nop", "nop", "nop", "ld_r_n", "nop",
       "nop", "ld_rr_nn", "ld_hld_a", "nop", "nop", "nop", "ld_hl_n", "nop",
       "nop", "nop", "ld_a_hld", "nop", "nop", "nop", "ld_r_n", "nop",
       "ld_r_r", "ld_r_r", "ld_r_r", "ld_r_r", "ld_r_r", "ld_r_r", "ld_r_hl", "ld_r_r",
       "ld_r_r", "ld_r_r", "ld_r_r", "ld_r_r", "ld_r_r", "ld_r_r", "ld_r_hl", "ld_r_r",
       "ld_r_r", "ld_r_r", "ld_r_r", "ld_r_r", "ld_r_r", "ld_r_r", "ld_r_hl", "ld_r_r",
       "ld_r_r", "ld_r_r", "ld_r_r", "ld_r_r", "ld_r_r", "ld_r_r", "ld_r_hl", "ld_r_r",
       "ld_r_r", "ld_r_r", "ld_r_r", "ld_r_r", "ld_r_r", "ld_r_r", "ld_r_hl", "ld_r_r",
       "ld_r_r", "ld_r_r", "ld_r_r", "ld_r_r", "ld_r_r", "ld_r_r", "ld_r_hl", "ld_r_r",
       "ld_hl_r", "ld_hl_r", "ld_hl_r", "ld_hl_r", "ld_hl_r", "ld_hl_r", "nop", "ld_hl_r",
       "ld_r_r", "ld_r_r", "ld_r_r", "ld_r_r", "ld_r_r", "ld_r_r", "ld_r_hl",
       "nop", "nop", "nop", "nop", "nop", "nop", "nop", "nop",
       "nop", "nop", "nop", "nop", "nop", "nop", "nop", "nop",
       "nop", "nop", "nop", "nop", "nop", "nop", "nop", "nop",
       "nop", "nop", "nop", "nop", "nop", "nop", "nop", "nop",
       "nop", "nop", "nop", "nop", "nop", "nop", "nop", "nop",
       "nop", "nop", "nop", "nop", "nop", "nop", "nop", "nop",
       "nop", "nop", "nop", "nop", "nop", "nop", "nop", "nop",
       "nop", "nop", "nop", "nop", "nop", "nop", "nop", "nop",
       "nop", "pop_bc", "nop", "jp_nn", "nop", "push_bc", "nop", "nop",
       "nop", "nop", "nop", "nop", "nop", "nop", "nop", "nop",
       "nop", "pop_de", "nop", "nop", "nop", "push_de", "nop", "nop",
       "nop", "nop", "nop", "nop", "nop", "nop", "nop", "nop",
       "ldh_n_a", "pop_hl", "ldh_c_a", "nop", "nop", "push_hl", "nop", "nop",
       "nop", "nop", "ld_nn_a", "nop", "nop", "nop", "nop", "nop",
       "ldh_a_n", "pop_af", "ldh_a_c", "nop", "nop", "push_af", "nop", "nop",
       "nop", "ld_sp_hl", "ld_a_nn", "nop", "nop", "nop", "nop", "nop" >>

instruction_table ==
    << "nop", "ld_rr_nn", "nop", "nop", "nop", "nop", "ld_r_n", "nop",
       "ld_nn_sp", "nop", "ld_a_bc", "nop", "nop", "nop", "ld_r_n", "nop",
       "nop", "ld_rr_nn", "nop", "nop", "nop", "nop", "ld_r_n", "nop",
       "nop", "nop", "ld_a_de", "nop", "nop", "nop", "ld_r_n", "nop",
       "nop", "ld_rr_nn", "ld_hli_a", "nop", "nop", "nop", "ld_r_n", "nop",
       "nop", "nop", "ld_a_hli", "nop", "nop", "nop", "ld_r_n", "nop",
       "nop", "ld_rr_nn", "ld_hld_a", "nop", "nop", "nop", "ld_hl_n", "nop",
       "nop", "nop", "ld_a_hld", "nop", "nop", "nop", "ld_r_n", "nop",
       "ld_r_r", "ld_r_r", "ld_r_r", "ld_r_r", "ld_r_r", "ld_r_r", "ld_r_hl", "ld_r_r",
       "ld_r_r", "ld_r_r", "ld_r_r", "ld_r_r", "ld_r_r", "ld_r_r", "ld_r_hl", "ld_r_r",
       "ld_r_r", "ld_r_r", "ld_r_r", "ld_r_r", "ld_r_r", "ld_r_r", "ld_r_hl", "ld_r_r",
       "ld_r_r", "ld_r_r", "ld_r_r", "ld_r_r", "ld_r_r", "ld_r_r", "ld_r_hl", "ld_r_r",
       "ld_r_r", "ld_r_r", "ld_r_r", "ld_r_r", "ld_r_r", "ld_r_r", "ld_r_hl", "ld_r_r",
       "ld_r_r", "ld_r_r", "ld_r_r", "ld_r_r", "ld_r_r", "ld_r_r", "ld_r_hl", "ld_r_r",
       "ld_hl_r", "ld_hl_r", "ld_hl_r", "ld_hl_r", "ld_hl_r", "ld_hl_r", "nop", "ld_hl_r",
       "ld_r_r", "ld_r_r", "ld_r_r", "ld_r_r", "ld_r_r", "ld_r_r", "ld_r_hl", "ld_r_r",
       "nop", "nop", "nop", "nop", "nop", "nop", "nop", "nop",
       "nop", "nop", "nop", "nop", "nop", "nop", "nop", "nop",
       "nop", "nop", "nop", "nop", "nop", "nop", "nop", "nop",
       "nop", "nop", "nop", "nop", "nop", "nop", "nop", "nop",
       "nop", "nop", "nop", "nop", "nop", "nop", "nop", "nop",
       "nop", "nop", "nop", "nop", "nop", "nop", "nop", "nop",
       "nop", "nop", "nop", "nop", "nop", "nop", "nop", "nop",
       "nop", "nop", "nop", "nop", "nop", "nop", "nop", "nop",
       "nop", "pop_bc", "nop", "jp_nn", "nop", "push_bc", "nop", "nop",
       "nop", "nop", "nop", "nop", "nop", "nop", "nop", "nop",
       "nop", "pop_de", "nop", "nop", "nop", "push_de", "nop", "nop",
       "nop", "nop", "nop", "nop", "nop", "nop", "nop", "nop",
       "ldh_n_a", "pop_hl", "ldh_c_a", "nop", "nop", "push_hl", "nop", "nop",
       "nop", "nop", "ld_nn_a", "nop", "nop", "nop", "nop", "nop",
       "ldh_a_n", "pop_af", "ldh_a_c", "nop", "nop", "push_af", "nop", "nop",
       "nop", "ld_sp_hl", "ld_a_nn", "nop", "nop", "nop", "nop", "nop" >>

instruction_table_at(op) == instruction_table[op + 1]

\* The statuses a handler can report for one tick.  The handlers themselves
\* (cpu_instructions.hpp) are outside this core: every tick of nop is its
\* final cycle; any other handler reports either that more cycles remain or
\* that this was the final one.  What a handler does to the core on a tick
\* is instruction_handler, below.
handler_status(name) ==
    IF name = "nop" THEN {"IS_LAST_CYCLE"} ELSE {"IS_LAST_CYCLE", "IS_MORE_CYCLES"}

(***************************************************************************)
(* cpu_funcs.hpp                                                           *)
(***************************************************************************)
\* the cpu_t and pins contents before cpu_init has ever run: phi is not
\* written by cpu_init, so its value is whatever the enclosing object held
PowerOn(phi) ==
    [pc |-> 0, instruction_latch |-> 0, a_latch |-> 0, d_latch |-> 0,
     ck_half_cycle |-> 0, read_ongoing |-> FALSE, write_ongoing |-> FALSE,
     state |-> "ST_FETCH",
     pins |-> [a |-> 0, d |-> 0, rd |-> FALSE, wr |-> FALSE, cs |-> FALSE, phi |-> phi]]

\* cpu_init without the chip-select line of the idle bus state
cpu_init_no_cs(c) ==
    [pc |-> 0, instruction_latch |-> 0, a_latch |-> 0, d_latch |-> 0,
     ck_half_cycle |-> 0, read_ongoing |-> FALSE, write_ongoing |-> FALSE,
     state |-> "ST_FETCH",
     pins |-> [c.pins EXCEPT !.rd = TRUE, !.wr = TRUE, !.a = \H8000]]

cpu_init(c) ==
    [pc |-> 0, instruction_latch |-> 0, a_latch |-> 0, d_latch |-> 0,
     ck_half_cycle |-> 0, read_ongoing |-> FALSE, write_ongoing |-> FALSE,
     state |-> "ST_FETCH",
     pins |-> [c.pins EXCEPT !.rd = TRUE, !.wr = TRUE, !.a = \H8000, !.cs = TRUE]]

cpu_init_read(c, addr) ==
    [c EXCEPT !.read_ongoing = TRUE, !.a_latch = addr]

\* cpu_init_write raising the flag of the other direction as well
cpu_init_write_both(c, addr, data) ==
    [c EXCEPT !.write_ongoing = TRUE, !.read_ongoing = TRUE,
              !.a_latch = addr, !.d_latch = data]

cpu_init_write(c, addr, data) ==
    [c EXCEPT !.write_ongoing = TRUE, !.a_latch = addr, !.d_latch = data]

\* cpu_update_clocks with phi following bit 2 instead of its negation
cpu_update_clocks_phi(c) ==
    LET hc == (((c.ck_half_cycle + 1) % 256) % 8)
    IN  [c EXCEPT !.ck_half_cycle = hc,
                  !.pins.phi = (BitAnd(Shr(hc, 2), 1) = 1)]

cpu_update_clocks(c) ==
    LET hc == (((c.ck_half_cycle + 1) % 256) % 8)
    IN  [c EXCEPT !.ck_half_cycle = hc,
                  !.pins.phi = ~(BitAnd(Shr(hc, 2), 1) = 1)]

\* cpu_handle_write and cpu_handle_read switch on ck_half_cycle; each case of
\* the switch is an operator from the core to the core.
\* case 0 without pulling A15 high
write_ck0_no_a15(c) ==
    [c EXCEPT !.pins.wr = TRUE, !.pins.rd = FALSE, !.pins.cs = TRUE]

write_ck0(c) ==
    [c EXCEPT !.pins.wr = TRUE, !.pins.rd = FALSE,
              !.pins.a = BitOr(c.pins.a, \H8000),
              !.pins.cs = TRUE]

\* case 1 without raising the read strobe
write_ck1_no_rd(c) ==
    [c EXCEPT !.pins.a = BitOr(BitAnd(c.pins.a, \H8000), BitAnd(c.a_latch, \H7FFF))]

write_ck1(c) ==
    [c EXCEPT !.pins.rd = IF RANGE(c.a_latch, \H0000, \H7FFF)
                             \/ RANGE(c.a_latch, \HA000, \HFDFF)
                          THEN TRUE ELSE c.pins.rd,
              !.pins.a = BitOr(BitAnd(c.pins.a, \H8000), BitAnd(c.a_latch, \H7FFF))]

\* case 2 taking everything from 0x8000 up to 0xfdff for RAM
write_ck2_from_8000(c) ==
    IF RANGE(c.a_latch, \H0000, \H7FFF)
    THEN [c EXCEPT !.pins.a = BitAnd(c.pins.a, \H7FFF)]
    ELSE IF RANGE(c.a_latch, \H8000, \HFDFF)
    THEN [c EXCEPT !.pins.cs = FALSE]
    ELSE c

write_ck2(c) ==
    IF RANGE(c.a_latch, \H0000, \H7FFF)
    THEN [c EXCEPT !.pins.a = BitAnd(c.pins.a, \H7FFF)]
    ELSE IF RANGE(c.a_latch, \HA000, \HFDFF)
    THEN [c EXCEPT !.pins.cs = FALSE]
    ELSE c

\* case 3 pulling WR low without putting d_latch on the data pins
write_ck3_no_data(c) ==
    IF RANGE(c.a_latch, \H0000, \H7FFF) \/ RANGE(c.a_latch, \HA000, \HFDFF)
    THEN [c EXCEPT !.pins.wr = FALSE]
    ELSE c

\* case 3 without the test of the region
write_ck3_any_region(c) ==
    [c EXCEPT !.pins.wr = FALSE, !.pins.d = c.d_latch]

write_ck3(c) ==
    IF RANGE(c.a_latch, \H0000, \H7FFF) \/ RANGE(c.a_latch, \HA000, \HFDFF)
    THEN [c EXCEPT !.pins.wr = FALSE, !.pins.d = c.d_latch]
    ELSE c

\* case 6 leaving WR low
write_ck6_no_wr(c) == c

write_ck6(c) == [c EXCEPT !.pins.wr = TRUE]

\* case 7 leaving the write in flight
write_ck7_no_clear(c) == c

write_ck7(c) == [c EXCEPT !.write_ongoing = FALSE]

\* returns [cpu, ret]
cpu_handle_write(c) ==
    LET hc == c.ck_half_cycle
    IN  CASE hc = 0 -> [cpu |-> write_ck0(c), ret |-> TRUE]
          [] hc = 1 -> [cpu |-> write_ck1(c), ret |-> TRUE]
          [] hc = 2 -> [cpu |-> write_ck2(c), ret |-> TRUE]
          [] hc = 3 -> [cpu |-> write_ck3(c), ret |-> TRUE]
          [] hc = 6 -> [cpu |-> write_ck6(c), ret |-> TRUE]
          [] hc = 7 -> [cpu |-> write_ck7(c), ret |-> FALSE]
          [] OTHER  -> [cpu |-> c, ret |-> TRUE]

read_ck0(c) ==
    [c EXCEPT !.pins.wr = TRUE, !.pins.rd = FALSE,
              !.pins.a = BitOr(c.pins.a, \H8000),
              !.pins.cs = TRUE]

\* case 1 overwriting A15 with the address instead of keeping it
read_ck1_no_a15(c) ==
    [c EXCEPT !.pins.a = BitAnd(c.a_latch, \H7FFF)]

read_ck1(c) ==
    [c EXCEPT !.pins.a = BitOr(BitAnd(c.pins.a, \H8000), BitAnd(c.a_latch, \H7FFF))]

\* case 2 with the RAM range one address too long
read_ck2_fe00(c) ==
    IF RANGE(c.a_latch, \H0000, \H7FFF)
    THEN [c EXCEPT !.pins.a = BitAnd(c.pins.a, \H7FFF)]
    ELSE IF RANGE(c.a_latch, \HA000, \HFE00)
    THEN [c EXCEPT !.pins.cs = FALSE]
    ELSE c

read_ck2(c) ==
    IF RANGE(c.a_latch, \H0000, \H7FFF)
    THEN [c EXCEPT !.pins.a = BitAnd(c.pins.a, \H7FFF)]
    ELSE IF RANGE(c.a_latch, \HA000, \HFDFF)
    THEN [c EXCEPT !.pins.cs = FALSE]
    ELSE c

\* the byte case 6 stores through dest
read_ck6(c) == c.pins.d

read_ck7(c) == [c EXCEPT !.read_ongoing = FALSE]

\* dst is the byte *dest holds before the call; returns [cpu, dest, ret]
cpu_handle_read(c, dst) ==
    LET hc == c.ck_half_cycle
    IN  CASE hc = 0 -> [cpu |-> read_ck0(c), dest |-> dst, ret |-> TRUE]
          [] hc = 1 -> [cpu |-> read_ck1(c), dest |-> dst, ret |-> TRUE]
          [] hc = 2 -> [cpu |-> read_ck2(c), dest |-> dst, ret |-> TRUE]
          [] hc = 6 -> [cpu |-> c, dest |-> read_ck6(c), ret |-> TRUE]
          [] hc = 7 -> [cpu |-> read_ck7(c), dest |-> dst, ret |-> FALSE]
          [] OTHER  -> [cpu |-> c, dest |-> dst, ret |-> TRUE]

\* The opcode fetch of cpu_clock, the same statements in ST_FETCH and in the
\* prefetch of ST_EXECUTE: begin a read at pc++ unless one is in flight, step
\* it into instruction_latch, go to ST_EXECUTE when it completes.
\* Returns [cpu, ret], ret being what cpu_handle_read returned.
\* the fetch with pc++ on an int wider than 16 bits
cpu_fetch_no_wrap(c) ==
    LET c1 == IF ~c.read_ongoing
              THEN [cpu_init_read(c, c.pc) EXCEPT !.pc = c.pc + 1]
              ELSE c
        r  == cpu_handle_read(c1, c1.instruction_latch)
        c2 == [r.cpu EXCEPT !.instruction_latch = r.dest]
    IN  [cpu |-> IF ~r.ret THEN [c2 EXCEPT !.state = "ST_EXECUTE"] ELSE c2,
         ret |-> r.ret]

cpu_fetch(c) ==
    LET c1 == IF ~c.read_ongoing
              THEN [cpu_init_read(c, c.pc) EXCEPT !.pc = (c.pc + 1) % 65536]
              ELSE c
        r  == cpu_handle_read(c1, c1.instruction_latch)
        c2 == [r.cpu EXCEPT !.instruction_latch = r.dest]
    IN  [cpu |-> IF ~r.ret THEN [c2 EXCEPT !.state = "ST_EXECUTE"] ELSE c2,
         ret |-> r.ret]

\* cpu_clock prefetching whatever the handler returned
cpu_clock_always_prefetch(c, status) ==
    cpu_update_clocks(
        CASE c.state = "ST_FETCH"   -> cpu_fetch(c).cpu
          [] c.state = "ST_EXECUTE" -> cpu_fetch(c).cpu
          [] c.state = "ST_TEST"    -> c)

\* cpu_clock with ST_TEST falling through to the fetch of ST_FETCH
cpu_clock_test_fetch(c, status) ==
    cpu_update_clocks(
        CASE c.state = "ST_FETCH"   -> cpu_fetch(c).cpu
          [] c.state = "ST_EXECUTE" -> IF status = "IS_LAST_CYCLE"
                                       THEN cpu_fetch(c).cpu
                                       ELSE c
          [] c.state = "ST_TEST"    -> cpu_fetch(c).cpu)

\* cpu_clock going back to ST_FETCH when the prefetch completes
cpu_clock_refetch(c, status) ==
    cpu_update_clocks(
        CASE c.state = "ST_FETCH"   -> cpu_fetch(c).cpu
          [] c.state = "ST_EXECUTE" ->
               IF status = "IS_LAST_CYCLE"
               THEN [cpu_fetch(c).cpu EXCEPT
                        !.state = IF cpu_fetch(c).ret THEN @ ELSE "ST_FETCH"]
               ELSE c
          [] c.state = "ST_TEST"    -> c)

\* c is the core as the dispatched handler left it and status what the
\* handler returned (both matter in ST_EXECUTE only)
cpu_clock(c, status) ==
    cpu_update_clocks(
        CASE c.state = "ST_FETCH"   -> cpu_fetch(c).cpu
          [] c.state = "ST_EXECUTE" -> IF status = "IS_LAST_CYCLE"
                                       THEN cpu_fetch(c).cpu
                                       ELSE c
          [] c.state = "ST_TEST"    -> c)

(***************************************************************************)
(* The instruction handlers (cpu_instructions.hpp).  A handler is called   *)
(* with the core once per tick in ST_EXECUTE, before the prefetch, and     *)
(* drives the bus transactions of its operand and memory accesses with the *)
(* functions above.  One call is modelled by the set of its outcomes       *)
(* [cpu, dest, status, kind, began]: the core and the handler's            *)
(* destination byte as the call leaves them, the status returned, the bus  *)
(* activity of the call ("idle", "read", "write") and whether it began the *)
(* transaction.  The handlers keep the contract of the bus protocol:       *)
(*   - nop drives no transaction and every tick is its final cycle;        *)
(*   - a transaction is begun at half-cycle 0, while no transaction is in  *)
(*     flight: an operand read at pc++, or a write;                        *)
(*   - a transaction the handler has begun is stepped on every tick until  *)
(*     it completes (own: the read in flight is the handler's; a write in  *)
(*     flight always is);                                                  *)
(*   - the bus carries one transaction per tick: a tick on which the       *)
(*     handler drives the bus reports that more cycles remain, so that the *)
(*     driver begins or steps its prefetch on the other ticks only.        *)
(***************************************************************************)
instruction_handler(name, c, dst, own) ==
    LET idle(s)     == [cpu |-> c, dest |-> dst, status |-> s,
                        kind |-> "idle", began |-> FALSE]
        rstep(c1, b) == LET r == cpu_handle_read(c1, dst)
                        IN  [cpu |-> r.cpu, dest |-> r.dest,
                             status |-> "IS_MORE_CYCLES",
                             kind |-> "read", began |-> b]
        wstep(c1, b) == [cpu |-> cpu_handle_write(c1).cpu, dest |-> dst,
                         status |-> "IS_MORE_CYCLES",
                         kind |-> "write", began |-> b]
    IN  IF name = "nop" THEN {idle("IS_LAST_CYCLE")}
        ELSE IF c.write_ongoing THEN {wstep(c, FALSE)}
        ELSE IF c.read_ongoing /\ own THEN {rstep(c, FALSE)}
        ELSE {idle(s) : s \in handler_status(name)}
             \cup (IF ~c.read_ongoing /\ c.ck_half_cycle = 0
                   THEN {rstep([cpu_init_read(c, c.pc) EXCEPT
                                    !.pc = (c.pc + 1) % 65536], TRUE)}
                        \cup {wstep(cpu_init_write(c, a, b), TRUE) :
                                 a \in HandlerAddrs, b \in HandlerData}
                   ELSE {})

(***************************************************************************)
(* The memory on the bus: it stores the data pins at the pin address while *)
(* the write strobe is active (low) and drives the data pins from the pin  *)
(* address while the read strobe is active (low).  mem holds the bytes     *)
(* written so far; every other address still holds its initial content.    *)
(***************************************************************************)
Program == (\H0100 :> 0) @@ (\H7FFF :> 0) @@ (\HFFFE :> 0) @@ (\HFFFF :> 0)

InitMem(a) == IF a \in DOMAIN Program THEN Program[a] ELSE a % 256

Load(m, a) == IF a \in DOMAIN m THEN m[a] ELSE InitMem(a)

Store(m, a, d) == [x \in (DOMAIN m) \cup {a} |-> IF x = a THEN d ELSE m[x]]

\* returns [pins, mem]
MemRespond(pins, m) ==
    LET m1 == IF ~pins.wr THEN Store(m, pins.a, pins.d) ELSE m
    IN  [pins |-> IF ~pins.rd THEN [pins EXCEPT !.d = Load(m1, pins.a)] ELSE pins,
         mem  |-> m1]

(***************************************************************************)
(* History of the last operation.                                          *)
(*   op        the operation that produced this state                      *)
(*   status    what the handler returned on the last ST_EXECUTE tick       *)
(*   issued    the last tick began an opcode fetch                         *)
(*   rd_ret, wr_ret   what cpu_handle_read / cpu_handle_write returned to  *)
(*             the driver or the harness on the last tick ("none" when     *)
(*             they did not call it)                                       *)
(*   hk        the bus activity of the handler on the last ST_EXECUTE tick *)
(*   rd_by     who began the latest read: "driver", "handler", "harness"   *)
(*   pc0, il0  pc and instruction_latch when the driver took over on the   *)
(*             last tick (in ST_EXECUTE: as the handler left them)         *)
(*   st0, hc0  state and ck_half_cycle before the last tick                *)
(*   rd_begin, wr_begin   ck_half_cycle at which the latest read / write   *)
(*             was begun                                                   *)
(*   rd_steps, wr_steps   calls of the step function since that begin      *)
(*   rd_skip   a tick went by with the driver's or the harness's read in   *)
(*             flight and not stepped                                      *)
(*   start_pc  pc when the first tick after cpu_init was made              *)
(*   lastw_ok, lastw_a, lastw_d   the last tick completed a write, alone   *)
(*             on the bus, of lastw_d to lastw_a                           *)
(*   rt, rt_d  the read in flight was begun at lastw_a right after that    *)
(*             write, which wrote rt_d                                     *)
(*   serial    every transaction since cpu_init was begun while no         *)
(*             transaction of either direction was in flight               *)
(***************************************************************************)
NoHist ==
    [op |-> "cpu_init", status |-> "none", issued |-> FALSE,
     hk |-> "idle", rd_by |-> "driver",
     rd_ret |-> "none", wr_ret |-> "none",
     pc0 |-> 0, st0 |-> "ST_FETCH", hc0 |-> 0, il0 |-> 0,
     rd_begin |-> 0, wr_begin |-> 0, rd_steps |-> 0, wr_steps |-> 0,
     rd_skip |-> FALSE, start_pc |-> 0,
     lastw_ok |-> FALSE, lastw_a |-> 0, lastw_d |-> 0,
     rt |-> FALSE, rt_d |-> 0, serial |-> TRUE]

RetName(called, ret) == IF ~called THEN "none" ELSE IF ret THEN "true" ELSE "false"

Init ==
    /\ \E phi \in BOOLEAN : cpu = cpu_init(PowerOn(phi))
    /\ mem = << >>
    /\ dest = 0
    /\ n = 0
    /\ hist = NoHist

\* The machine is restarted: cpu_init runs on the running core, whose pins d
\* and phi it does not write, and the memory and the harness are set up anew.
Reset ==
    /\ cpu' = cpu_init(cpu)
    /\ mem' = << >>
    /\ dest' = 0
    /\ n' = 0
    /\ hist' = NoHist

\* the enclosing system loads the program counter before the first tick
SetPc(p) ==
    /\ hist.op = "cpu_init"
    /\ cpu' = [cpu EXCEPT !.pc = p]
    /\ hist' = [hist EXCEPT !.op = "set_pc", !.start_pc = p]
    /\ UNCHANGED <<mem, dest, n>>

\* test-mode entry: the harness takes over the bus before the first tick
EnterTest ==
    /\ hist.op = "cpu_init"
    /\ cpu' = [cpu EXCEPT !.state = "ST_TEST"]
    /\ hist' = [hist EXCEPT !.op = "enter_test"]
    /\ UNCHANGED <<mem, dest, n>>

\* In test mode the harness begins transactions at the start of a machine
\* cycle; the core itself checks nothing, the harness keeps the contract that
\* no transaction of the same direction is in flight.
TestBeginRead(a) ==
    /\ cpu.state = "ST_TEST"
    /\ cpu.ck_half_cycle = 0
    /\ n < MaxTestTicks
    /\ ~cpu.read_ongoing
    /\ cpu' = cpu_init_read(cpu, a)
    /\ hist' = [hist EXCEPT !.op = "cpu_init_read",
                            !.rd_begin = cpu.ck_half_cycle, !.rd_steps = 0,
                            !.rd_skip = FALSE, !.rd_by = "harness",
                            !.rt = hist.lastw_ok /\ hist.lastw_a = a /\ ~cpu.write_ongoing,
                            !.rt_d = hist.lastw_d,
                            !.serial = @ /\ ~cpu.write_ongoing]
    /\ UNCHANGED <<mem, dest, n>>

TestBeginWrite(a, b) ==
    /\ cpu.state = "ST_TEST"
    /\ cpu.ck_half_cycle = 0
    /\ n < MaxTestTicks
    /\ ~cpu.write_ongoing
    /\ cpu' = cpu_init_write(cpu, a, b)
    /\ hist' = [hist EXCEPT !.op = "cpu_init_write",
                            !.wr_begin = cpu.ck_half_cycle, !.wr_steps = 0,
                            !.rt = FALSE, !.lastw_ok = FALSE,
                            !.serial = @ /\ ~cpu.read_ongoing]
    /\ UNCHANGED <<mem, dest, n>>

\* One tick of the system: c is the core after cpu_clock; the memory then
\* answers the pins.
Settle(c, d, h) ==
    LET mr == MemRespond(c.pins, mem)
    IN  /\ cpu' = [c EXCEPT !.pins = mr.pins]
        /\ mem' = mr.mem
        /\ dest' = d
        /\ n' = n + 1
        /\ hist' = h

\* no handler is called in ST_FETCH
NoHandler ==
    [cpu |-> cpu, dest |-> dest, status |-> "none", kind |-> "idle", began |-> FALSE]

\* a tick of the autonomous driver (ST_FETCH, ST_EXECUTE); h is what the
\* handler did before the driver's part of the tick
DriverHist(h) ==
    LET stepped == cpu.state = "ST_FETCH" \/ h.status = "IS_LAST_CYCLE"
        issued  == stepped /\ ~h.cpu.read_ongoing
    IN  [hist EXCEPT !.op = "cpu_clock", !.status = h.status, !.issued = issued,
                     !.hk = h.kind,
                     !.rd_by = IF issued THEN "driver"
                               ELSE IF h.kind = "read" /\ h.began THEN "handler"
                               ELSE @,
                     !.rd_ret = RetName(stepped, cpu_fetch(h.cpu).ret),
                     !.wr_ret = "none",
                     !.pc0 = h.cpu.pc, !.st0 = cpu.state, !.hc0 = cpu.ck_half_cycle,
                     !.il0 = h.cpu.instruction_latch,
                     !.rd_begin = IF issued THEN cpu.ck_half_cycle ELSE @,
                     !.rd_steps = IF issued THEN 1 ELSE IF stepped THEN @ + 1 ELSE @,
                     !.rd_skip = IF issued THEN FALSE
                                 ELSE IF /\ cpu.read_ongoing /\ ~stepped
                                         /\ hist.rd_by = "driver"
                                      THEN TRUE ELSE @,
                     !.start_pc = IF n = 0 THEN cpu.pc ELSE @,
                     !.lastw_ok = FALSE, !.rt = FALSE,
                     !.serial = IF issued THEN @ /\ ~h.cpu.write_ongoing ELSE @]

ClockFetch ==
    /\ cpu.state = "ST_FETCH"
    /\ n < MaxTicks
    /\ Settle(cpu_clock(cpu, "none"), dest, DriverHist(NoHandler))

\* the dispatched handler runs, then the driver's prefetch and the clocks
ClockExecute ==
    /\ cpu.state = "ST_EXECUTE"
    /\ n < MaxTicks
    /\ \E h \in instruction_handler(instruction_table_at(cpu.instruction_latch),
                                    cpu, dest, hist.rd_by = "handler") :
          Settle(cpu_clock(h.cpu, h.status), h.dest, DriverHist(h))

\* a tick in test mode: the harness steps what is in flight (the write first
\* when both are), then clocks the core
ClockTest ==
    /\ cpu.state = "ST_TEST"
    /\ n < MaxTestTicks
    /\ LET w == IF cpu.write_ongoing THEN cpu_handle_write(cpu)
                ELSE [cpu |-> cpu, ret |-> TRUE]
           r == IF cpu.read_ongoing THEN cpu_handle_read(w.cpu, dest)
                ELSE [cpu |-> w.cpu, dest |-> dest, ret |-> TRUE]
           done_w == cpu.write_ongoing /\ ~w.ret
       IN  Settle(cpu_clock(r.cpu, "none"), r.dest,
                  [hist EXCEPT !.op = "cpu_clock", !.status = "none", !.issued = FALSE,
                               !.rd_ret = RetName(cpu.read_ongoing, r.ret),
                               !.wr_ret = RetName(cpu.write_ongoing, w.ret),
                               !.pc0 = cpu.pc, !.st0 = cpu.state,
                               !.hc0 = cpu.ck_half_cycle,
                               !.il0 = cpu.instruction_latch,
                               !.rd_steps = IF cpu.read_ongoing THEN @ + 1 ELSE @,
                               !.wr_steps = IF cpu.write_ongoing THEN @ + 1 ELSE @,
                               !.start_pc = IF n = 0 THEN cpu.pc ELSE @,
                               !.lastw_ok = done_w /\ ~cpu.read_ongoing,
                               !.lastw_a = cpu.a_latch, !.lastw_d = cpu.d_latch])

Next ==
    \/ Reset
    \/ \E p \in StartPcs : SetPc(p)
    \/ EnterTest
    \/ \E a \in TestAddrs : TestBeginRead(a)
    \/ \E a \in TestAddrs, b \in TestData : TestBeginWrite(a, b)
    \/ ClockFetch
    \/ ClockExecute
    \/ ClockTest

Spec == Init /\ [][Next]_vars

(***************************************************************************)
(* Vocabulary of the properties.                                           *)
(***************************************************************************)
InROM(a)  == a >= \H0000 /\ a <= \H7FFF
InRAM(a)  == a >= \HA000 /\ a <= \HFDFF
InHRAM(a) == a >= \HFE00 /\ a <= \HFFFF

A15High == cpu.pins.a >= \H8000

Idle == ~cpu.read_ongoing /\ ~cpu.write_ongoing

\* the last tick stepped a read / a write that was begun at half-cycle 0 and
\* has been stepped on every tick since
ReadStepped  == /\ hist.op = "cpu_clock" /\ hist.rd_ret # "none"
                /\ hist.rd_begin = 0 /\ ~hist.rd_skip
WriteStepped == /\ hist.op = "cpu_clock" /\ hist.wr_ret # "none"
                /\ hist.wr_begin = 0

\* the number of steps the transaction(s) stepped on the last tick have made
Steps == IF hist.rd_ret # "none" THEN hist.rd_steps ELSE hist.wr_steps

(***************************************************************************)
(* C1  Transaction completion: a read or write begun at half-cycle 0 and   *)
(* stepped once per tick returns false exactly once, on its 8th step, the  *)
(* one taken at half-cycle 7; every earlier step returns true and leaves   *)
(* the in-flight flag true; the flag is false right after the last step.   *)
(***************************************************************************)
C1_TransactionCompletion ==
    /\ ReadStepped =>
          /\ (hist.rd_ret = "false") <=> (hist.hc0 = 7)
          /\ (hist.rd_ret = "false") <=> (hist.rd_steps = 8)
          /\ cpu.read_ongoing <=> (hist.rd_ret = "true")
    /\ WriteStepped =>
          /\ (hist.wr_ret = "false") <=> (hist.hc0 = 7)
          /\ (hist.wr_ret = "false") <=> (hist.wr_steps = 8)
          /\ cpu.write_ongoing <=> (hist.wr_ret = "true")

\* a read has just completed on its 8th step, after a write that took 8 too
C1_Witness ==
    /\ ReadStepped /\ hist.rd_ret = "false" /\ hist.rd_steps = 8
    /\ hist.wr_steps = 8 /\ Idle /\ n = 16

(***************************************************************************)
(* C2  Region selection: in a transaction begun at half-cycle 0,           *)
(* (i) for a ROM address A15 is low once the half-cycle-2 step is made and *)
(* chip-select is high after every step; (ii) for a RAM address            *)
(* chip-select is low once the half-cycle-2 step is made and A15 is high   *)
(* after every step; (iii) for an HRAM/IO address A15 and chip-select are  *)
(* both high after the half-cycle-2 step.                                  *)
(***************************************************************************)
C2_RegionSelection ==
    (ReadStepped \/ WriteStepped) =>
        /\ InROM(cpu.a_latch) =>
              /\ cpu.pins.cs
              /\ Steps >= 3 => ~A15High
        /\ InRAM(cpu.a_latch) =>
              /\ A15High
              /\ Steps >= 3 => ~cpu.pins.cs
        /\ InHRAM(cpu.a_latch) =>
              (Steps >= 3 => A15High /\ cpu.pins.cs)

\* a read of the first HRAM/IO address right after its half-cycle-2 step,
\* on a bus whose chip-select the transaction before had left low
C2_Witness ==
    /\ ReadStepped /\ hist.rd_steps = 3 /\ cpu.a_latch = \HFE00
    /\ A15High /\ cpu.pins.cs /\ n = 11

(***************************************************************************)
(* C3  Half-cycle wraparound, as claimed: after n calls of cpu_clock       *)
(* ck_half_cycle = n mod 8, and phi is false exactly when ck_half_cycle is *)
(* in 4..7, for every n including 0.                                       *)
(***************************************************************************)
C3_AsClaimed ==
    /\ cpu.ck_half_cycle = n % 8
    /\ (cpu.pins.phi = FALSE) <=> (cpu.ck_half_cycle \in 4..7)

(***************************************************************************)
(* C3  amended: ck_half_cycle = n mod 8 for every n, and phi is false      *)
(* exactly when ck_half_cycle is in 4..7 once cpu_clock has been called    *)
(* (n >= 1): cpu_init does not write phi.                                  *)
(***************************************************************************)
C3_HalfCycleWraparound ==
    /\ cpu.ck_half_cycle = n % 8
    /\ n >= 1 => ((cpu.pins.phi = FALSE) <=> (cpu.ck_half_cycle \in 4..7))

\* the counter has wrapped and is in the low phase again
C3_Witness ==
    /\ n = 12 /\ cpu.ck_half_cycle = 4 /\ cpu.pins.phi = FALSE
    /\ cpu.state = "ST_EXECUTE"

(***************************************************************************)
(* C4  Round trip, as claimed: for every address a and byte b, a read of a *)
(* begun right after a write of b to a has completed samples b into the    *)
(* destination byte on its half-cycle-6 step.                              *)
(***************************************************************************)
C4_AsClaimed ==
    (ReadStepped /\ hist.rt /\ hist.rd_steps >= 7) => dest = hist.rt_d

(***************************************************************************)
(* C4  amended: the round trip holds for every address a in ROM            *)
(* [0x0000,0x7FFF] or RAM [0xA000,0xFDFF]; for the other addresses the     *)
(* write never pulls the write strobe low and the memory stores nothing.   *)
(***************************************************************************)
C4_RoundTrip ==
    (/\ ReadStepped /\ hist.rt /\ hist.rd_steps >= 7
     /\ (InROM(cpu.a_latch) \/ InRAM(cpu.a_latch)))
        => dest = hist.rt_d

\* the read of the last RAM address has just sampled the byte written
C4_Witness ==
    /\ ReadStepped /\ hist.rt /\ hist.rd_steps = 7
    /\ cpu.a_latch = \HFDFF /\ hist.rt_d = \HA5 /\ dest = \HA5

(***************************************************************************)
(* C5  Fetch/execute scenario: from reset with pc = p and the no-op opcode *)
(* 0x00 in memory at p, the 16 calls of cpu_clock by the driver are 8      *)
(* ticks of fetch and then 8 ticks on which the no-op handler is the one   *)
(* dispatched, and they leave pc = p + 2 (mod 2^16) and                    *)
(* instruction_latch = the memory byte at p + 1.                           *)
(***************************************************************************)
C5_FetchExecute ==
    (/\ hist.op = "cpu_clock" /\ hist.st0 # "ST_TEST"
     /\ Load(mem, hist.start_pc) = 0)
        => /\ n \in 1..8  => hist.st0 = "ST_FETCH"
           /\ n \in 9..16 => /\ hist.st0 = "ST_EXECUTE"
                             /\ instruction_table_at(hist.il0) = "nop"
           /\ n = 16 => /\ cpu.pc = (hist.start_pc + 2) % 65536
                        /\ cpu.instruction_latch
                              = Load(mem, (hist.start_pc + 1) % 65536)

\* the 16th tick of the scenario of the specification (p = 0x0100, the byte
\* at 0x0101 is 0x01) has dispatched the handler of opcode 0x01
C5_EarlyDispatch ==
    /\ n = 16 /\ hist.op = "cpu_clock" /\ hist.st0 = "ST_EXECUTE"
    /\ hist.start_pc = \H0100 /\ hist.hc0 = 7
    /\ hist.il0 = 1 /\ instruction_table_at(hist.il0) = "ld_rr_nn"

(***************************************************************************)
(* C6  Idle invariant, as claimed: whenever no transaction is in flight    *)
(* the read strobe and the write strobe are inactive (true) and            *)
(* chip-select is idle-high (true).                                        *)
(***************************************************************************)
C6_AsClaimed ==
    Idle => cpu.pins.rd /\ cpu.pins.wr /\ cpu.pins.cs

(***************************************************************************)
(* C6  amended: whenever no transaction is in flight the write strobe is   *)
(* inactive (true).  The read strobe and chip-select are not restored when *)
(* a transaction completes: right after a transaction begun at half-cycle  *)
(* 0 has completed at half-cycle 7, chip-select is low exactly when the    *)
(* address is in RAM, and the read strobe is inactive exactly when a write *)
(* to ROM or RAM has completed, so it is still active after every read.    *)
(***************************************************************************)
C6_IdleBus ==
    Idle =>
        /\ cpu.pins.wr
        /\ ((ReadStepped \/ WriteStepped) /\ hist.hc0 = 7) =>
              /\ cpu.pins.cs <=> ~InRAM(cpu.a_latch)
              /\ cpu.pins.rd <=> (/\ hist.wr_ret = "false"
                                  /\ (InROM(cpu.a_latch) \/ InRAM(cpu.a_latch)))

\* idle right after a read of RAM: chip-select and the read strobe are low
C6_Witness ==
    /\ Idle /\ ReadStepped /\ hist.rd_ret = "false" /\ hist.wr_ret = "none"
    /\ cpu.a_latch = \HA000
    /\ ~cpu.pins.cs /\ ~cpu.pins.rd /\ cpu.pins.wr

(***************************************************************************)
(* C7  Reset: right after cpu_init, from any prior state, pc,              *)
(* instruction_latch, a_latch, d_latch, ck_half_cycle, read_ongoing and    *)
(* write_ongoing are zero, the state is ST_FETCH, the read strobe, the     *)
(* write strobe and chip-select are true and A15 is high.                  *)
(***************************************************************************)
C7_Reset ==
    hist.op = "cpu_init" =>
        /\ cpu.pc = 0 /\ cpu.instruction_latch = 0
        /\ cpu.a_latch = 0 /\ cpu.d_latch = 0
        /\ cpu.ck_half_cycle = 0
        /\ ~cpu.read_ongoing /\ ~cpu.write_ongoing
        /\ cpu.state = "ST_FETCH"
        /\ cpu.pins.rd /\ cpu.pins.wr /\ cpu.pins.cs
        /\ A15High

\* cpu_init has run on a core that had written 0x5a to the bus before
C7_Witness ==
    /\ hist.op = "cpu_init" /\ cpu.pins.d = \H5A /\ cpu.pins.phi = FALSE
    /\ cpu.state = "ST_FETCH" /\ cpu.pins.cs /\ cpu.pins.rd

(***************************************************************************)
(* C8  Mutual exclusion, as claimed: read_ongoing and write_ongoing are    *)
(* never both true when every transaction is begun while none of the same  *)
(* direction is in flight.                                                 *)
(***************************************************************************)
C8_AsClaimed ==
    ~(cpu.read_ongoing /\ cpu.write_ongoing)

(***************************************************************************)
(* C8  amended: read_ongoing and write_ongoing are never both true when    *)
(* every transaction is begun while no transaction of either direction is  *)
(* in flight.                                                              *)
(***************************************************************************)
C8_MutualExclusion ==
    hist.serial => ~(cpu.read_ongoing /\ cpu.write_ongoing)

\* a write in flight alone, begun after a read had completed
C8_Witness ==
    /\ hist.serial /\ cpu.write_ongoing /\ ~cpu.read_ongoing
    /\ hist.wr_steps = 3 /\ hist.rd_steps = 8 /\ n = 11

(***************************************************************************)
(* C9  Program counter: on a tick on which the driver issues an opcode     *)
(* fetch the read is begun at the old pc and pc becomes (pc + 1) mod 2^16; *)
(* on every other tick pc is unchanged.                                    *)
(***************************************************************************)
C9_ProgramCounter ==
    hist.op = "cpu_clock" =>
        IF hist.issued
        THEN /\ cpu.pc = (hist.pc0 + 1) % 65536
             /\ cpu.a_latch = hist.pc0
        ELSE cpu.pc = hist.pc0

\* a fetch issued at 0xffff has wrapped the program counter
C9_Witness ==
    /\ hist.op = "cpu_clock" /\ hist.issued
    /\ hist.pc0 = \HFFFF /\ cpu.pc = 0 /\ cpu.a_latch = \HFFFF

(***************************************************************************)
(* C10  Top-state transitions: a call of cpu_clock either leaves the state *)
(* as it was or takes it from ST_FETCH to ST_EXECUTE; so ST_EXECUTE is     *)
(* never followed by ST_FETCH and ST_TEST is never left by a tick.         *)
(***************************************************************************)
C10_TopState ==
    hist.op = "cpu_clock" =>
        \/ cpu.state = hist.st0
        \/ (hist.st0 = "ST_FETCH" /\ cpu.state = "ST_EXECUTE")

\* a prefetch has completed in ST_EXECUTE and the state is still ST_EXECUTE
C10_Witness ==
    /\ hist.op = "cpu_clock" /\ hist.st0 = "ST_EXECUTE" /\ hist.rd_ret = "false"
    /\ cpu.state = "ST_EXECUTE" /\ n = 16

(***************************************************************************)
(* The core fields a tick of the driver can write besides the clock: two   *)
(* cores agree on them, and on the pins other than phi.                    *)
(***************************************************************************)
SameCore(c1, c2) ==
    /\ c1.pc = c2.pc /\ c1.instruction_latch = c2.instruction_latch
    /\ c1.a_latch = c2.a_latch /\ c1.d_latch = c2.d_latch
    /\ c1.read_ongoing = c2.read_ongoing /\ c1.write_ongoing = c2.write_ongoing

SameBus(c1, c2) ==
    /\ c1.pins.a = c2.pins.a /\ c1.pins.d = c2.pins.d
    /\ c1.pins.rd = c2.pins.rd /\ c1.pins.wr = c2.pins.wr
    /\ c1.pins.cs = c2.pins.cs

(***************************************************************************)
(* C11  Test mode, as claimed: in ST_TEST a call of cpu_clock leaves the   *)
(* address, data, read-strobe, write-strobe, chip-select and phase pins    *)
(* and pc, instruction_latch, a_latch, d_latch and both in-flight flags as *)
(* they were.                                                              *)
(***************************************************************************)
C11_AsClaimed ==
    cpu.state = "ST_TEST" =>
        LET c == cpu_clock(cpu, "none")
        IN  /\ SameBus(c, cpu) /\ SameCore(c, cpu)
            /\ c.pins.phi = cpu.pins.phi

(***************************************************************************)
(* C11  amended: in ST_TEST a call of cpu_clock leaves the address, data,  *)
(* read-strobe, write-strobe and chip-select pins and pc,                  *)
(* instruction_latch, a_latch, d_latch and both in-flight flags as they    *)
(* were; it still advances ck_half_cycle and recomputes the phase pin,     *)
(* which changes on the ticks made at half-cycles 3 and 7.                 *)
(***************************************************************************)
C11_TestMode ==
    cpu.state = "ST_TEST" =>
        LET c == cpu_clock(cpu, "none")
        IN  /\ SameBus(c, cpu) /\ SameCore(c, cpu)
            /\ c.state = "ST_TEST"
            /\ c.ck_half_cycle = (cpu.ck_half_cycle + 1) % 8
            /\ (n >= 1 => ((c.pins.phi # cpu.pins.phi) <=> (cpu.ck_half_cycle \in {3, 7})))

\* test mode has been ticked with a write in flight; its strobe is low, and
\* the tick about to be made at half-cycle 3 changes phi and nothing else
C11_Witness ==
    /\ cpu.state = "ST_TEST" /\ hist.op = "cpu_clock" /\ hist.st0 = "ST_TEST"
    /\ cpu.write_ongoing /\ cpu.ck_half_cycle = 3 /\ cpu.pins.phi
    /\ ~cpu_clock(cpu, "none").pins.phi
    /\ SameBus(cpu_clock(cpu, "none"), cpu)

(***************************************************************************)
(* C12  Dispatch completeness: instruction_table has exactly 256 entries,  *)
(* every opcode 0x00..0xff indexes a handler (no empty entry), and the     *)
(* opcode the driver dispatches on is always such an index.  The opcodes   *)
(* the table gives no instruction of their own are the ones it maps to     *)
(* nop, among them 0x00.                                                   *)
(***************************************************************************)
C12_Dispatch ==
    /\ Len(instruction_table) = 256
    /\ \A op \in 0..255 :
          /\ op + 1 \in DOMAIN instruction_table
          /\ instruction_table_at(op) \in STRING
          /\ instruction_table_at(op) # ""
    /\ instruction_table_at(\H00) = "nop"
    /\ instruction_table_at(\HFA) = "ld_a_nn"
    /\ instruction_table_at(\HFF) = "nop"
    /\ cpu.instruction_latch \in 0..255

\* the driver has dispatched opcode 0x01 to a handler that is not nop
C12_Witness ==
    /\ hist.op = "cpu_clock" /\ hist.st0 = "ST_EXECUTE"
    /\ hist.il0 = 1 /\ instruction_table_at(hist.il0) = "ld_rr_nn"
    /\ hist.status = "IS_MORE_CYCLES"

\* the last tick was a tick of the driver that stepped its opcode fetch
FetchStepped ==
    /\ hist.op = "cpu_clock" /\ hist.st0 # "ST_TEST" /\ hist.rd_ret # "none"

(***************************************************************************)
(* C13  Opcode latch timing: during an opcode fetch instruction_latch is   *)
(* written only on the tick on which the fetch read completes (the step    *)
(* at half-cycle 7), in ST_FETCH the state becomes ST_EXECUTE on that      *)
(* tick, and instruction_latch never changes on a tick that leaves the     *)
(* fetch read in flight.                                                   *)
(***************************************************************************)
C13_LatchOnCompletion ==
    FetchStepped =>
        /\ cpu.instruction_latch # hist.il0 =>
              /\ hist.rd_ret = "false"
              /\ hist.hc0 = 7
              /\ hist.st0 = "ST_FETCH" => cpu.state = "ST_EXECUTE"
        /\ cpu.read_ongoing => cpu.instruction_latch = hist.il0

(***************************************************************************)
(* C14  On a tick in ST_EXECUTE whose handler reports that more cycles     *)
(* remain the driver issues no fetch: it begins no read, leaves pc alone   *)
(* and does not step a prefetch read in flight, so read_ongoing, a_latch,  *)
(* instruction_latch and every pin but phi are as the handler left them;   *)
(* a prefetch read is stepped only on ticks whose status is final-cycle.   *)
(***************************************************************************)
C14_NoFetchOnMoreCycles ==
    /\ (/\ cpu.state = "ST_EXECUTE"
        /\ "IS_MORE_CYCLES" \in handler_status(instruction_table_at(cpu.instruction_latch)))
          => LET c == cpu_clock(cpu, "IS_MORE_CYCLES")
             IN  SameCore(c, cpu) /\ SameBus(c, cpu) /\ c.state = "ST_EXECUTE"
    /\ (hist.op = "cpu_clock" /\ hist.st0 = "ST_EXECUTE") =>
          /\ hist.status = "IS_MORE_CYCLES" =>
                /\ ~hist.issued /\ hist.rd_ret = "none"
                /\ cpu.pc = hist.pc0 /\ cpu.instruction_latch = hist.il0
          /\ hist.rd_ret # "none" => hist.status = "IS_LAST_CYCLE"

\* a tick with more cycles remaining has gone by with the prefetch read in
\* flight, and the read is still where it was
C14_Witness ==
    /\ hist.op = "cpu_clock" /\ hist.st0 = "ST_EXECUTE"
    /\ hist.status = "IS_MORE_CYCLES" /\ hist.rd_skip
    /\ cpu.read_ongoing /\ cpu.state = "ST_EXECUTE"

\* the address is one the external bus serves: ROM or RAM
External(a) == InROM(a) \/ InRAM(a)

(***************************************************************************)
(* C15  Write strobe and data commit, as claimed: in every write begun at  *)
(* half-cycle 0, whatever its address, the write strobe is low and the     *)
(* data pins hold d_latch after the half-cycle-3 step, the strobe is still *)
(* low after the steps at half-cycles 4 and 5, and it is high after the    *)
(* half-cycle-6 step.                                                      *)
(***************************************************************************)
C15_AsClaimed ==
    WriteStepped =>
        /\ hist.wr_steps = 4 => (~cpu.pins.wr /\ cpu.pins.d = cpu.d_latch)
        /\ hist.wr_steps \in {5, 6} => ~cpu.pins.wr
        /\ hist.wr_steps = 7 => cpu.pins.wr

(***************************************************************************)
(* C15  amended: the above holds for the writes whose address is in ROM    *)
(* [0x0000,0x7FFF] or RAM [0xA000,0xFDFF]; in a write to any other address *)
(* the write strobe stays inactive (true) on every step, and no step puts  *)
(* d_latch on the data pins: every step of the write leaves the data pins  *)
(* as they were.                                                           *)
(***************************************************************************)
C15_WriteStrobe ==
    /\ WriteStepped =>
          IF External(cpu.a_latch)
          THEN /\ hist.wr_steps = 4 => (~cpu.pins.wr /\ cpu.pins.d = cpu.d_latch)
               /\ hist.wr_steps \in {5, 6} => ~cpu.pins.wr
               /\ hist.wr_steps = 7 => cpu.pins.wr
          ELSE cpu.pins.wr
    /\ (cpu.write_ongoing /\ ~External(cpu.a_latch)) =>
          /\ cpu_handle_write(cpu).cpu.pins.d = cpu.pins.d
          /\ cpu_handle_write(cpu).cpu.pins.wr

\* the half-cycle-3 step of a write of 0xa5 to the first HRAM/IO address
\* has left the write strobe high and the data pins without 0xa5, after a
\* write of 0xa5 to the first RAM address that the memory has stored
C15_Witness ==
    /\ WriteStepped /\ hist.wr_steps = 4 /\ cpu.a_latch = \HFE00
    /\ cpu.d_latch = \HA5 /\ cpu.pins.wr /\ cpu.pins.d # \HA5
    /\ Load(mem, \HA000) = \HA5 /\ n = 12

\* the last tick stepped a read alone / a write alone
ReadAlone  == ReadStepped /\ hist.wr_ret = "none"
WriteAlone == WriteStepped /\ hist.rd_ret = "none"

\* the address pins hold the low 15 bits of a_latch under a high A15
AddressLatched == cpu.pins.a = \H8000 + (cpu.a_latch % \H8000)

(***************************************************************************)
(* C16  Half-cycle 1, as claimed: the step of a read of ROM or RAM raises  *)
(* the read strobe, the step of a write changes neither strobe (the read   *)
(* strobe stays low, the write strobe high, as half-cycle 0 set them), and *)
(* in both directions the address pins then hold the low 15 bits of        *)
(* a_latch with A15 high.                                                  *)
(***************************************************************************)
C16_AsClaimed ==
    /\ (ReadAlone /\ hist.rd_steps = 2 /\ External(cpu.a_latch)) => cpu.pins.rd
    /\ (WriteAlone /\ hist.wr_steps = 2) => (~cpu.pins.rd /\ cpu.pins.wr)
    /\ ((ReadStepped \/ WriteStepped) /\ Steps = 2) => AddressLatched

(***************************************************************************)
(* C16  amended: the strobe action of half-cycle 1 belongs to the write:   *)
(* the step of a write of ROM or RAM raises the read strobe (for any other *)
(* address it stays low), the step of a read changes neither strobe (the   *)
(* read strobe stays low, the write strobe high); in both directions the   *)
(* address pins then hold the low 15 bits of a_latch with A15 high.        *)
(***************************************************************************)
C16_HalfCycleOne ==
    /\ (ReadAlone /\ hist.rd_steps = 2) => (~cpu.pins.rd /\ cpu.pins.wr)
    /\ (WriteStepped /\ hist.wr_steps = 2) =>
          /\ cpu.pins.rd <=> External(cpu.a_latch)
          /\ cpu.pins.wr
    /\ ((ReadStepped \/ WriteStepped) /\ Steps = 2) => AddressLatched

\* the half-cycle-1 step of a write to the last ROM address: the read strobe
\* is back high, the pins hold 0x7fff under A15
C16_Witness ==
    /\ WriteAlone /\ hist.wr_steps = 2 /\ cpu.a_latch = \H7FFF
    /\ cpu.pins.rd /\ cpu.pins.wr /\ cpu.pins.a = \HFFFF

\* the number of the three regions that hold address a
RegionCount(a) ==
    (IF InROM(a) THEN 1 ELSE 0) + (IF InRAM(a) THEN 1 ELSE 0)
        + (IF InHRAM(a) THEN 1 ELSE 0)

\* what the half-cycle-2 step has done to the select lines
SelectA15  == ~A15High /\ cpu.pins.cs
SelectCS   == A15High /\ ~cpu.pins.cs
SelectNone == A15High /\ cpu.pins.cs

\* the last tick stepped a transaction begun at half-cycle 0 that has made
\* its half-cycle-2 step
Selected == (ReadStepped \/ WriteStepped) /\ Steps >= 3

(***************************************************************************)
(* C17  Address-space partition, as claimed: the latched address of every  *)
(* transaction is in exactly one of ROM, RAM and HRAM/IO, the half-cycle-2 *)
(* step applies the select of that region, and only the addresses of       *)
(* HRAM/IO get no select.                                                  *)
(***************************************************************************)
C17_AsClaimed ==
    Selected =>
        /\ RegionCount(cpu.a_latch) = 1
        /\ InROM(cpu.a_latch) => SelectA15
        /\ InRAM(cpu.a_latch) => SelectCS
        /\ InHRAM(cpu.a_latch) => SelectNone
        /\ SelectNone => InHRAM(cpu.a_latch)

(***************************************************************************)
(* C17  amended: the three regions are disjoint but leave out              *)
(* 0x8000-0x9fff: the latched address is in at most one region, and in     *)
(* none exactly when it is in 0x8000-0x9fff; the half-cycle-2 step applies *)
(* A15 low for ROM, chip-select low for RAM and no select for HRAM/IO and  *)
(* for 0x8000-0x9fff alike.                                                *)
(***************************************************************************)
C17_Partition ==
    Selected =>
        /\ RegionCount(cpu.a_latch) <= 1
        /\ RegionCount(cpu.a_latch) = 0 <=> (cpu.a_latch >= \H8000 /\ cpu.a_latch <= \H9FFF)
        /\ InROM(cpu.a_latch) => SelectA15
        /\ InRAM(cpu.a_latch) => SelectCS
        /\ InHRAM(cpu.a_latch) => SelectNone
        /\ RegionCount(cpu.a_latch) = 0 => SelectNone

\* a write to 0x9fff, in no region, after its half-cycle-2 step: no select
C17_Witness ==
    /\ Selected /\ hist.wr_ret # "none" /\ hist.wr_steps = 3
    /\ cpu.a_latch = \H9FFF /\ RegionCount(cpu.a_latch) = 0 /\ SelectNone

(***************************************************************************)
(* C18  From the half-cycle-2 step of a transaction begun at half-cycle 0  *)
(* until it completes, the address pins hold exactly a_latch (A15 low for  *)
(* ROM addresses, high from 0x8000 up), whatever they held before.         *)
(***************************************************************************)
C18_AddressPins ==
    Selected =>
        /\ cpu.pins.a = cpu.a_latch
        /\ A15High <=> cpu.a_latch >= \H8000

\* a read of RAM holds its address on the pins although the write to ROM
\* before it (0x5a now at 0x7fff) had left A15 low
C18_Witness ==
    /\ Selected /\ hist.rd_ret # "none" /\ hist.rd_steps = 5 /\ hist.wr_steps = 8
    /\ cpu.a_latch = \HFDFF /\ cpu.pins.a = \HFDFF /\ n = 13
    /\ Load(mem, \H7FFF) = \H5A

(***************************************************************************)
(* C19  The read strobe and the write strobe are never both active (low).  *)
(***************************************************************************)
C19_StrobesExclusive ==
    cpu.pins.rd \/ cpu.pins.wr

\* the write strobe is low in a write that followed a read, which had left
\* the read strobe low
C19_Witness ==
    /\ WriteAlone /\ hist.wr_steps = 4 /\ hist.rd_steps = 8 /\ n = 12
    /\ ~cpu.pins.wr /\ cpu.pins.rd

(***************************************************************************)
(* C20  Fetch alignment: whatever statuses the handlers return in          *)
(* ST_EXECUTE, every opcode fetch the driver issues is begun at            *)
(* half-cycle 0 and stepped on 8 consecutive ticks, so the step that       *)
(* samples the data pins at half-cycle 6 is its 7th and follows the steps  *)
(* of half-cycles 1 and 2.                                                 *)
(***************************************************************************)
C20_FetchAlignment ==
    /\ (hist.op = "cpu_clock" /\ hist.issued) => hist.hc0 = 0
    /\ FetchStepped =>
          /\ ~hist.rd_skip
          /\ hist.rd_ret = "false" => hist.rd_steps = 8
          /\ hist.hc0 = 6 => hist.rd_steps = 7

\* a fetch issued at half-cycle 7 completes on that tick: the program
\* counter has advanced past 0x0102 and instruction_latch was not written
C20_Misaligned ==
    /\ hist.op = "cpu_clock" /\ hist.issued /\ hist.hc0 = 7 /\ hist.rd_ret = "false"
    /\ hist.rd_steps = 1 /\ hist.pc0 = \H0102 /\ cpu.pc = \H0103
    /\ cpu.instruction_latch = hist.il0 /\ cpu.instruction_latch = 1 /\ n = 16
====
